---- MODULE Spec2Model ----
(***************************************************************************)
(* Model of src/server.py: the authoritative coin-collector game server.   *)
(*                                                                         *)
(* The server is one asyncio event loop.  A coroutine runs without         *)
(* interruption from one await that suspends to the next, so every action  *)
(* below is one such run-to-suspension segment of a coroutine.             *)
(*                                                                         *)
(* Time.  The clock `now` counts tick periods: one clock unit is           *)
(* 1/TICK_RATE seconds, so a duration of s seconds is s * TICK_RATE units. *)
(* The timing configuration is scaled down (the program runs at 20 Hz with *)
(* 0.2 s latency, 180 s rounds and 10 s intermissions); the scaled values  *)
(* keep  tick period < latency < round and intermission length.            *)
(* A sleeping task is resumed at its due time: the clock does not advance  *)
(* past a task that is due, and tasks due at the same instant run in any   *)
(* order.                                                                  *)
(*                                                                         *)
(* Numbers.  Positions are integers (pixels).  Velocity components are     *)
(* kept in thousandths: 1000 stands for 1.0, 707 for 1/sqrt(2).            *)
(***************************************************************************)
EXTENDS Integers, Sequences, FiniteSets, TLC

\* ---------------------------------------------------------------- bounds
\* Connections accepted during a run.
MaxPid == 2
\* Connections accepted during a run of SpecKeys.
MaxPidKeys == 1
\* The clock stops advancing here.
MaxTime == 10
\* Connections accepted during a run of SpecLive.
MaxPidLive == 1
\* The clock stops advancing here in a run of SpecLive.
MaxTimeLive == 14
\* Inbound messages received during a run.
MaxMsgs == 1
\* TICK_RATE (line 7), scaled: clock units per second.
TICK_RATE == 4
\* LATENCY (line 8), scaled, in clock units.
LATENCY == 2
\* GAME_DURATION (line 15), scaled, in seconds.
GAME_DURATION == 1
\* INTERMISSION (line 16), scaled, in seconds.
INTERMISSION == 1

\* ------------------------------------------------------ program constants
MAP_W == 800
MAP_H == 500
PLAYER_SPEED == 180
PLAYER_R == 15
COIN_R == 10
\* random.uniform(50, MAP_W - 50): the margin of the spawn area.
SPAWN_MARGIN == 50
\* random.uniform(20, MAP_W - 20): the inset of the coin area.
COIN_INSET == 20
\* asyncio.sleep(1) of the coin spawner, in seconds.
SPAWN_SLEEP == 1

\* An optional value (None or a value) is a sequence of length 0 or 1.
None == << >>
Some(v) == << v >>
Val(o) == o[1]

\* A duration in seconds as clock units.
Sec(s) == s * TICK_RATE
\* 1 / TICK_RATE seconds, in clock units.
TickPeriod == Sec(1) \div TICK_RATE

Max(a, b) == IF a >= b THEN a ELSE b
Min(a, b) == IF a <= b THEN a ELSE b

VARIABLES
    players,          \* pid -> [x, y, vx, vy, score]   (dict, in insertion order = pid order)
    next_pid,
    coin,             \* None or Some([x, y])
    game_active,
    game_end_time,
    intermission_end,
    last_winner,      \* None or Some(pid)
    now,              \* time.time()
    conn,             \* pid -> [pc, due]: where the handle() coroutine of that connection is
    alive,            \* connections that are open: a send on them succeeds
    inflight,         \* apply_input tasks sleeping: [pid, input, due]
    nmsgs,            \* inbound messages received so far
    spawn_due,        \* wake-up time of spawn_coin
    loop,             \* game_loop: [pc, due, last]; after line 201 `now` = `last`
    sends,            \* delayed_send tasks of the current broadcast: [to, due]
    snap,             \* Some(the snapshot built by the last broadcast), None before
    delivered,        \* sessions that got the current snapshot
    failed,           \* sessions whose send of the current snapshot raised
    inbox,            \* pid -> sequence of welcome messages the client received
    issued,           \* history: identifiers issued, in order
    bad,              \* history: connections that received a malformed message
    reported          \* history: time_left and game_active of the snapshot the last tick
                      \* built, None when it built none

vars == << players, next_pid, coin, game_active, game_end_time, intermission_end,
           last_winner, now, conn, alive, inflight, nmsgs, spawn_due, loop, sends,
           snap, delivered, failed, inbox, issued, bad, reported >>

\* ----------------------------------------------------------------- helpers
\* Mutant of clamp: the lower bound is not applied.
clampUpperOnly(v, a, b) == Min(b, v)

clamp(v, a, b) == Max(a, Min(b, v))

\* Division of the fixed-point arithmetic, rounding toward zero.
Quot(a, b) == IF a >= 0 THEN a \div b ELSE -((-a) \div b)

Pids == DOMAIN players

\* dict.pop(pid, None)
Pop(f, k) == [p \in (DOMAIN f) \ {k} |-> f[p]]

\* ---------------------------------------------------------- random draws
\* random.uniform(50, MAP_W - 50), random.uniform(50, MAP_H - 50): two corners.
SpawnPoints ==
    { [x |-> SPAWN_MARGIN, y |-> SPAWN_MARGIN],
      [x |-> MAP_W - SPAWN_MARGIN, y |-> MAP_H - SPAWN_MARGIN] }

\* Mutant of CoinPoints: the coin is drawn from the whole map, uniform(0, MAP_W).
CoinPointsWholeMap ==
    { [x |-> 0, y |-> 0],
      [x |-> SPAWN_MARGIN, y |-> SPAWN_MARGIN],
      [x |-> MAP_W - COIN_INSET, y |-> MAP_H - COIN_INSET] }

\* random.uniform(20, MAP_W - 20), random.uniform(20, MAP_H - 20).
CoinPoints ==
    { [x |-> SPAWN_MARGIN, y |-> SPAWN_MARGIN],
      [x |-> MAP_W - COIN_INSET, y |-> MAP_H - COIN_INSET] }

Init ==
    /\ players = << >>
    /\ next_pid = 1
    /\ coin = None
    /\ game_active = FALSE
    /\ game_end_time = 0
    /\ intermission_end = 0
    /\ last_winner = None
    /\ now = 0
    /\ conn = << >>
    /\ alive = {}
    /\ inflight = {}
    /\ nmsgs = 0
    /\ spawn_due = 0
    /\ loop = [pc |-> "run", due |-> 0, last |-> 0]
    /\ sends = {}
    /\ snap = None
    /\ delivered = {}
    /\ failed = {}
    /\ inbox = << >>
    /\ issued = << >>
    /\ bad = {}
    /\ reported = None

\* ------------------------------------------------------------ start_round
\* Every player: score 0, a fresh random position, velocity 0.
ResetPlayers(ps, pos) ==
    [p \in DOMAIN ps |->
        [x |-> pos[p].x, y |-> pos[p].y, vx |-> 0, vy |-> 0, score |-> 0]]

\* Mutant of start_round: `last_winner = None` is missing.
start_roundKeepsWinner ==
    /\ \E pos \in [Pids -> SpawnPoints] : players' = ResetPlayers(players, pos)
    /\ coin' = None
    /\ UNCHANGED last_winner
    /\ intermission_end' = 0
    /\ game_active' = TRUE
    /\ game_end_time' = now + Sec(GAME_DURATION)

start_round ==
    /\ \E pos \in [Pids -> SpawnPoints] : players' = ResetPlayers(players, pos)
    /\ coin' = None
    /\ last_winner' = None
    /\ intermission_end' = 0
    /\ game_active' = TRUE
    /\ game_end_time' = now + Sec(GAME_DURATION)

\* ----------------------------------------------------------------- handle
\* Mutant of IncPid: the next identifier is derived from the size of the player
\* table (as it is once the new player is in it), so identifiers are recycled.
IncPidRecycle(n) == Cardinality(DOMAIN players) + 2

\* next_pid += 1
IncPid(n) == n + 1

\* handle(), from entry to the await of the welcome's delayed_send; at most
\* maxpid connections are accepted.
Register(maxpid) ==
    /\ next_pid <= maxpid
    /\ LET pid == next_pid IN
        /\ next_pid' = IncPid(next_pid)
        /\ \E pos \in SpawnPoints :
              players' = [p \in Pids \cup {pid} |->
                            IF p = pid
                            THEN [x |-> pos.x, y |-> pos.y, vx |-> 0, vy |-> 0, score |-> 0]
                            ELSE players[p]]
        /\ conn' = [p \in (DOMAIN conn) \cup {pid} |->
                        IF p = pid THEN [pc |-> "welcome", due |-> now + LATENCY]
                        ELSE conn[p]]
        /\ alive' = alive \cup {pid}
        /\ inbox' = [p \in (DOMAIN inbox) \cup {pid} |->
                        IF p = pid THEN << >> ELSE inbox[p]]
        /\ issued' = Append(issued, pid)
    /\ UNCHANGED << coin, game_active, game_end_time, intermission_end, last_winner,
                    now, inflight, nmsgs, spawn_due, loop, sends, snap, delivered,
                    failed, bad,
                    reported >>

\* The welcome message of handle().
Welcome(pid) ==
    [type |-> "welcome", id |-> pid, map_w |-> MAP_W, map_h |-> MAP_H,
     game_duration |-> GAME_DURATION]

\* handle(): the welcome's delayed_send wakes up and sends (a send to a closed
\* connection raises, which delayed_send swallows), then the auto-start check; the
\* coroutine suspends next in `async for msg in ws`.
WelcomeDone(pid) ==
    /\ pid \in DOMAIN conn
    /\ conn[pid].pc = "welcome"
    /\ now >= conn[pid].due
    /\ inbox' = IF pid \in alive
                THEN [inbox EXCEPT ![pid] = Append(@, Welcome(pid))]
                ELSE inbox
    /\ IF ~game_active /\ Cardinality(Pids) >= 1
       THEN start_round
       ELSE UNCHANGED << players, coin, last_winner, intermission_end, game_active,
                         game_end_time >>
    /\ conn' = [conn EXCEPT ![pid] = [pc |-> "recv", due |-> 0]]
    /\ UNCHANGED << next_pid, now, alive, inflight, nmsgs, spawn_due, loop, sends,
                    snap, delivered, failed, issued, bad,
                    reported >>

\* The peer closes the connection (or the connection drops).
ClientClose(pid) ==
    /\ pid \in alive
    /\ alive' = alive \ {pid}
    /\ UNCHANGED << players, next_pid, coin, game_active, game_end_time,
                    intermission_end, last_winner, now, conn, inflight, nmsgs,
                    spawn_due, loop, sends, snap, delivered, failed, inbox, issued,
                    bad,
                    reported >>

\* handle(): `async for msg in ws` ends or raises ConnectionClosed; the finally
\* clause pops the player.
Unregister(pid) ==
    /\ pid \in DOMAIN conn
    /\ conn[pid].pc = "recv"
    /\ pid \notin alive
    /\ players' = Pop(players, pid)
    /\ conn' = [conn EXCEPT ![pid].pc = "closed"]
    /\ UNCHANGED << next_pid, coin, game_active, game_end_time, intermission_end,
                    last_winner, now, alive, inflight, nmsgs, spawn_due, loop, sends,
                    snap, delivered, failed, inbox, issued, bad,
                    reported >>

\* ------------------------------------------------------- inbound messages
\* The input record of the wire format.
InputRecords == [up : BOOLEAN, down : BOOLEAN, left : BOOLEAN, right : BOOLEAN]

NoKeys == [up |-> FALSE, down |-> FALSE, left |-> FALSE, right |-> FALSE]

\* An inbound text message, by what json.loads and the handler see of it:
\* json: it parses; object: it parses to a dict; type: data.get("type");
\* has_input: the dict has the key "input"; input: data["input"].
Msg(j, o, t, h, i) == [json |-> j, object |-> o, type |-> t, has_input |-> h, input |-> i]

\* The input records the clients of Spec send: towards the top left corner and
\* towards the bottom right corner.
Keys ==
    { [up |-> TRUE, down |-> FALSE, left |-> TRUE, right |-> FALSE],
      [up |-> FALSE, down |-> TRUE, left |-> FALSE, right |-> TRUE] }

\* The messages clients send: an input message for each record of `keys`, and
\* one message of each other kind.
Messages(keys) ==
    { Msg(TRUE, TRUE, "input", TRUE, i) : i \in keys }
    \cup { Msg(FALSE, FALSE, "none", FALSE, NoKeys),     \* text that is not JSON
           Msg(TRUE, FALSE, "none", FALSE, NoKeys),      \* JSON that is not an object
           Msg(TRUE, TRUE, "input", FALSE, NoKeys),      \* type "input", no "input" field
           Msg(TRUE, TRUE, "chat", FALSE, NoKeys) }      \* an object of another type

Malformed(m) == ~m.json \/ ~m.object \/ (m.type = "input" /\ ~m.has_input)

\* The body of the inner try of handle(): what it does with one message.
\*   json.loads(msg)            raises JSONDecodeError on text that is not JSON
\*   data.get("type")           raises AttributeError on a list, number, string, null
\*   data["input"]              raises KeyError when the key is missing
Outcome(m) ==
    IF ~m.json THEN "JSONDecodeError"
    ELSE IF ~m.object THEN "AttributeError"
    ELSE IF m.type # "input" THEN "ignored"
    ELSE IF ~m.has_input THEN "KeyError"
    ELSE "task"

\* except json.JSONDecodeError
Caught(e) == e = "JSONDecodeError"

\* handle(): one iteration of `async for msg in ws`.  An exception the inner
\* except does not catch leaves the loop through the finally clause, which pops
\* the player and closes the connection.
Recv(pid, m) ==
    /\ pid \in DOMAIN conn
    /\ conn[pid].pc = "recv"
    /\ pid \in alive
    /\ nmsgs < MaxMsgs
    /\ nmsgs' = nmsgs + 1
    /\ bad' = IF Malformed(m) THEN bad \cup {pid} ELSE bad
    /\ LET o == Outcome(m) IN
        IF o = "task"
        THEN /\ inflight' = inflight \cup
                    {[pid |-> pid, input |-> m.input, due |-> now + LATENCY]}
             /\ UNCHANGED << players, conn, alive >>
        ELSE IF o = "ignored" \/ Caught(o)
        THEN UNCHANGED << players, conn, alive, inflight >>
        ELSE /\ players' = Pop(players, pid)
             /\ conn' = [conn EXCEPT ![pid].pc = "closed"]
             /\ alive' = alive \ {pid}
             /\ UNCHANGED inflight
    /\ UNCHANGED << next_pid, coin, game_active, game_end_time, intermission_end,
                    last_winner, now, spawn_due, loop, sends, snap, delivered, failed,
                    inbox, issued, reported >>

\* ------------------------------------------------------------ apply_input
\* math.hypot(vx, vy) in thousandths, for vx, vy in {-1, 0, 1} not both 0.
Sqrt2 == CHOOSE r \in 1000..2000 : r * r <= 2000000 /\ (r + 1) * (r + 1) > 2000000

hypot(vx, vy) == IF vx * vx + vy * vy = 1 THEN 1000 ELSE Sqrt2

\* Mutant of Velocity: the vector is not normalised.
VelocityRaw(data) ==
    [vx |-> 1000 * ((IF data.left THEN -1 ELSE 0) + (IF data.right THEN 1 ELSE 0)),
     vy |-> 1000 * ((IF data.up THEN -1 ELSE 0) + (IF data.down THEN 1 ELSE 0))]

\* Lines 94-105: the velocity of an input record, in thousandths.
Velocity(data) ==
    LET vx == (IF data.left THEN -1 ELSE 0) + (IF data.right THEN 1 ELSE 0)
        vy == (IF data.up THEN -1 ELSE 0) + (IF data.down THEN 1 ELSE 0)
    IN  IF vx # 0 \/ vy # 0
        THEN LET d == hypot(vx, vy)
             IN  [vx |-> Quot(vx * 1000 * 1000, d), vy |-> Quot(vy * 1000 * 1000, d)]
        ELSE [vx |-> 0, vy |-> 0]

\* Mutant of ApplyInput: there is no test `pid not in players`, and the write goes
\* through players.setdefault(pid, ...), which puts a removed player back.
ApplyInputReinserts(t) ==
    /\ t \in inflight
    /\ now >= t.due
    /\ inflight' = inflight \ {t}
    /\ LET v == Velocity(t.input)
       IN  players' = [p \in Pids \cup {t.pid} |->
                         IF p # t.pid THEN players[p]
                         ELSE IF p \in Pids
                              THEN [players[p] EXCEPT !.vx = v.vx, !.vy = v.vy]
                              ELSE [x |-> 0, y |-> 0, vx |-> v.vx, vy |-> v.vy,
                                    score |-> 0]]
    /\ UNCHANGED << next_pid, coin, game_active, game_end_time, intermission_end,
                    last_winner, now, conn, alive, nmsgs, spawn_due, loop, sends,
                    snap, delivered, failed, inbox, issued, bad,
                    reported >>

\* apply_input(), after its sleep.
ApplyInput(t) ==
    /\ t \in inflight
    /\ now >= t.due
    /\ inflight' = inflight \ {t}
    /\ IF t.pid \notin Pids
       THEN UNCHANGED players
       ELSE LET v == Velocity(t.input)
            IN  players' = [players EXCEPT ![t.pid].vx = v.vx, ![t.pid].vy = v.vy]
    /\ UNCHANGED << next_pid, coin, game_active, game_end_time, intermission_end,
                    last_winner, now, conn, alive, nmsgs, spawn_due, loop, sends,
                    snap, delivered, failed, inbox, issued, bad,
                    reported >>

\* ------------------------------------------------------------- spawn_coin
\* Mutant of SpawnAllowed: the phase is not looked at.
SpawnAllowedAnyPhase == coin = None

\* Line 81.
SpawnAllowed == game_active /\ coin = None

\* One iteration of the spawner's loop.
SpawnCoin ==
    /\ now >= spawn_due
    /\ IF SpawnAllowed
       THEN \E c \in CoinPoints : coin' = Some(c)
       ELSE UNCHANGED coin
    /\ spawn_due' = now + Sec(SPAWN_SLEEP)
    /\ UNCHANGED << players, next_pid, game_active, game_end_time, intermission_end,
                    last_winner, now, conn, alive, inflight, nmsgs, loop, sends, snap,
                    delivered, failed, inbox, issued, bad,
                    reported >>

\* -------------------------------------------------------------- end_round
\* Lines 182-187: the scan for the best score over players.items(), the pids
\* ascending from `from` on (dict order is insertion order, which is pid order).
RECURSIVE BestFrom(_, _, _, _)
BestFrom(ps, from, best_pid, best_score) ==
    IF \A p \in DOMAIN ps : p < from
    THEN best_pid
    ELSE IF from \in DOMAIN ps /\ ps[from].score > best_score
         THEN BestFrom(ps, from + 1, Some(from), ps[from].score)
         ELSE BestFrom(ps, from + 1, best_pid, best_score)

\* Mutant of Winner: best_score starts at 0.
WinnerInitZero(ps) == IF DOMAIN ps # {} THEN BestFrom(ps, 1, None, 0) ELSE None

\* Lines 181-191.
Winner(ps) == IF DOMAIN ps # {} THEN BestFrom(ps, 1, None, -1) ELSE None

\* Mutant of end_round: the deadline check runs before the collision step, so the
\* winner is taken from the scores as they were when the tick began.
end_roundBeforeCollision ==
    /\ game_active' = FALSE
    /\ last_winner' = Winner(players)
    /\ coin' = None
    /\ intermission_end' = now + Sec(INTERMISSION)
    /\ UNCHANGED game_end_time

\* end_round(), on the player table as the tick's collision step left it.
end_round ==
    /\ game_active' = FALSE
    /\ last_winner' = Winner(players')
    /\ coin' = None
    /\ intermission_end' = now + Sec(INTERMISSION)
    /\ UNCHANGED game_end_time

\* -------------------------------------------------------------- game_loop
\* Mutant of RoundOver: a tick that runs exactly at the deadline does not end
\* the round.
RoundOverStrict == now > game_end_time

\* Line 221.
RoundOver == now >= game_end_time

\* Mutant of ResumeDue: the deadline is not compared with the clock.
ResumeDueNoDeadline == intermission_end # 0 /\ Pids # {}

\* Mutant of ResumeDue: `and players` is missing.
ResumeDueNoPlayers == intermission_end # 0 /\ now >= intermission_end

\* Line 226.
ResumeDue == intermission_end # 0 /\ now >= intermission_end /\ Pids # {}

\* v * PLAYER_SPEED * dt, with v in thousandths and dt in clock units.
Move(v, dt) == Quot(v * PLAYER_SPEED * dt, 1000 * TICK_RATE)

\* Lines 205-209.
Integrate(ps, dt) ==
    [p \in DOMAIN ps |->
        [ps[p] EXCEPT !.x = clamp(@ + Move(ps[p].vx, dt), PLAYER_R, MAP_W - PLAYER_R),
                      !.y = clamp(@ + Move(ps[p].vy, dt), PLAYER_R, MAP_H - PLAYER_R)]]

\* math.hypot(p.x - c.x, p.y - c.y) <= PLAYER_R + COIN_R
InReach(p, c) ==
    (p.x - c.x) * (p.x - c.x) + (p.y - c.y) * (p.y - c.y)
        <= (PLAYER_R + COIN_R) * (PLAYER_R + COIN_R)

\* Mutant of Collide: the `break` is missing, every player in reach scores.
CollideNoBreak(ps, c) ==
    LET hit == IF c = None THEN {} ELSE {p \in DOMAIN ps : InReach(ps[p], Val(c))}
    IN  IF c # None /\ hit # {}
        THEN [players |-> [p \in DOMAIN ps |->
                             IF p \in hit THEN [ps[p] EXCEPT !.score = @ + 1] ELSE ps[p]],
              coin |-> None]
        ELSE [players |-> ps, coin |-> c]

\* Mutant of Collide: the scorer is credited but `coin = None` is missing.
CollideKeepsCoin(ps, c) ==
    LET hit == IF c = None THEN {} ELSE {p \in DOMAIN ps : InReach(ps[p], Val(c))}
    IN  IF c # None /\ hit # {}
        THEN LET first == CHOOSE p \in hit : \A q \in hit : p <= q
             IN  [players |-> [ps EXCEPT ![first].score = @ + 1], coin |-> c]
        ELSE [players |-> ps, coin |-> c]

\* Lines 212-218: the first player in dict order within reach of the coin scores.
Collide(ps, c) ==
    LET hit == IF c = None THEN {} ELSE {p \in DOMAIN ps : InReach(ps[p], Val(c))}
    IN  IF c # None /\ hit # {}
        THEN LET first == CHOOSE p \in hit : \A q \in hit : p <= q
             IN  [players |-> [ps EXCEPT ![first].score = @ + 1], coin |-> None]
        ELSE [players |-> ps, coin |-> c]

\* Lines 51-56 of broadcast(): whole seconds left in the phase.
TimeLeft(active, end_time, inter_end, t) ==
    IF active
    THEN Max(0, Quot(end_time - t, TICK_RATE))
    ELSE IF inter_end > t THEN Max(0, Quot(inter_end - t, TICK_RATE)) ELSE 0

\* Lines 58-74 of broadcast(): the state message.
Snapshot(ps, c, active, end_time, inter_end, winner, t) ==
    [players |-> [p \in DOMAIN ps |-> [x |-> ps[p].x, y |-> ps[p].y, score |-> ps[p].score]],
     coin |-> c,
     time_left |-> TimeLeft(active, end_time, inter_end, t),
     game_active |-> active,
     game_duration |-> GAME_DURATION,
     last_winner |-> winner]

\* Mutant of GameTick: the motion step is not under `if game_active`.
GameTickMovesAlways ==
    /\ loop.pc = "run"
    /\ now >= loop.due
    /\ LET dt == now - loop.last
           col == Collide(Integrate(players, dt), coin)
       IN
        /\ IF game_active
           THEN IF RoundOver
                THEN /\ players' = col.players
                     /\ end_round
                ELSE /\ players' = col.players
                     /\ coin' = col.coin
                     /\ UNCHANGED << game_active, last_winner, intermission_end,
                                     game_end_time >>
           ELSE IF ResumeDue
                THEN start_round
                ELSE /\ players' = Integrate(players, dt)
                     /\ UNCHANGED << coin, game_active, last_winner,
                                     intermission_end, game_end_time >>
        /\ IF DOMAIN players' = {}
           THEN /\ loop' = [pc |-> "run", due |-> now + Max(0, TickPeriod), last |-> now]
                /\ UNCHANGED << sends, snap, delivered, failed >>
                /\ reported' = None
           ELSE /\ snap' = Some(Snapshot(players', coin', game_active', game_end_time',
                                     intermission_end', last_winner', now))
                /\ sends' = {[to |-> p, due |-> now + LATENCY] : p \in DOMAIN players'}
                /\ delivered' = {}
                /\ failed' = {}
                /\ loop' = [pc |-> "gather", due |-> 0, last |-> now]
                /\ reported' = Some([time_left |-> Val(snap').time_left,
                                     game_active |-> Val(snap').game_active])
    /\ UNCHANGED << next_pid, now, conn, alive, inflight, nmsgs, spawn_due, inbox,
                    issued, bad >>

\* One iteration of game_loop up to its next suspension: motion, collision,
\* round end or resume, then broadcast().  With no player broadcast() returns at
\* once and the loop sleeps for the rest of the tick period; otherwise the loop
\* is suspended in the gather of the delayed sends.
GameTick ==
    /\ loop.pc = "run"
    /\ now >= loop.due
    /\ LET dt == now - loop.last
           col == Collide(Integrate(players, dt), coin)
       IN
        /\ IF game_active
           THEN IF RoundOver
                THEN /\ players' = col.players
                     /\ end_round
                ELSE /\ players' = col.players
                     /\ coin' = col.coin
                     /\ UNCHANGED << game_active, last_winner, intermission_end,
                                     game_end_time >>
           ELSE IF ResumeDue
                THEN start_round
                ELSE UNCHANGED << players, coin, game_active, last_winner,
                                  intermission_end, game_end_time >>
        /\ IF DOMAIN players' = {}
           THEN /\ loop' = [pc |-> "run", due |-> now + Max(0, TickPeriod), last |-> now]
                /\ UNCHANGED << sends, snap, delivered, failed >>
                /\ reported' = None
           ELSE /\ snap' = Some(Snapshot(players', coin', game_active', game_end_time',
                                     intermission_end', last_winner', now))
                /\ sends' = {[to |-> p, due |-> now + LATENCY] : p \in DOMAIN players'}
                /\ delivered' = {}
                /\ failed' = {}
                /\ loop' = [pc |-> "gather", due |-> 0, last |-> now]
                /\ reported' = Some([time_left |-> Val(snap').time_left,
                                     game_active |-> Val(snap').game_active])
    /\ UNCHANGED << next_pid, now, conn, alive, inflight, nmsgs, spawn_due, inbox,
                    issued, bad >>

\* Mutant of Deliver: a send on a closed connection never returns, so its
\* delayed_send task never ends.
DeliverHangs(s) ==
    /\ s \in sends
    /\ now >= s.due
    /\ s.to \in alive
    /\ sends' = sends \ {s}
    /\ delivered' = delivered \cup {s.to}
    /\ UNCHANGED << players, next_pid, coin, game_active, game_end_time,
                    intermission_end, last_winner, now, conn, alive, inflight, nmsgs,
                    spawn_due, loop, snap, failed, inbox, issued, bad, reported >>

\* Mutant of Deliver: delayed_send has no try/except, so the exception of a failed
\* send leaves the gather and ends game_loop.
DeliverRaises(s) ==
    /\ s \in sends
    /\ now >= s.due
    /\ sends' = sends \ {s}
    /\ IF s.to \in alive
       THEN delivered' = delivered \cup {s.to} /\ UNCHANGED << failed, loop >>
       ELSE /\ failed' = failed \cup {s.to}
            /\ loop' = [loop EXCEPT !.pc = "crashed"]
            /\ UNCHANGED delivered
    /\ UNCHANGED << players, next_pid, coin, game_active, game_end_time,
                    intermission_end, last_winner, now, conn, alive, inflight, nmsgs,
                    spawn_due, snap, inbox, issued, bad,
                    reported >>

\* delayed_send() of a snapshot, after its sleep: ws.send raises on a closed
\* connection; the except clause logs it and the task ends normally.
Deliver(s) ==
    /\ s \in sends
    /\ now >= s.due
    /\ sends' = sends \ {s}
    /\ IF s.to \in alive
       THEN delivered' = delivered \cup {s.to} /\ UNCHANGED failed
       ELSE failed' = failed \cup {s.to} /\ UNCHANGED delivered
    /\ UNCHANGED << players, next_pid, coin, game_active, game_end_time,
                    intermission_end, last_winner, now, conn, alive, inflight, nmsgs,
                    spawn_due, loop, snap, inbox, issued, bad,
                    reported >>

\* game_loop resumes when the gather of broadcast() is done, and sleeps for what
\* is left of the tick period (line 232).
GatherDone ==
    /\ loop.pc = "gather"
    /\ sends = {}
    /\ loop' = [loop EXCEPT !.pc = "run",
                            !.due = now + Max(0, TickPeriod - (now - loop.last))]
    /\ snap' = None
    /\ delivered' = {}
    /\ failed' = {}
    /\ UNCHANGED << players, next_pid, coin, game_active, game_end_time,
                    intermission_end, last_winner, now, conn, alive, inflight, nmsgs,
                    spawn_due, sends, inbox, issued, bad,
                    reported >>

\* ------------------------------------------------------------------ clock
\* Some task is due: the event loop runs it before the clock moves on.
Due ==
    \/ \E p \in DOMAIN conn : conn[p].pc = "welcome" /\ now >= conn[p].due
    \/ \E p \in DOMAIN conn : conn[p].pc = "recv" /\ p \notin alive
    \/ \E t \in inflight : now >= t.due
    \/ \E s \in sends : now >= s.due
    \/ now >= spawn_due
    \/ loop.pc = "run" /\ now >= loop.due
    \/ loop.pc = "gather" /\ sends = {}

\* The clock moves on by one unit, up to maxtime.
AdvanceTo(maxtime) ==
    /\ now < maxtime
    /\ ~Due
    /\ now' = now + 1
    /\ UNCHANGED << players, next_pid, coin, game_active, game_end_time,
                    intermission_end, last_winner, conn, alive, inflight, nmsgs,
                    spawn_due, loop, sends, snap, delivered, failed, inbox, issued,
                    bad,
                    reported >>

Advance == AdvanceTo(MaxTime)

Next ==
    \/ Register(MaxPid)
    \/ \E p \in DOMAIN conn : WelcomeDone(p)
    \/ \E p \in DOMAIN conn : ClientClose(p)
    \/ \E p \in DOMAIN conn : Unregister(p)
    \/ \E p \in DOMAIN conn : \E m \in Messages(Keys) : Recv(p, m)
    \/ \E t \in inflight : ApplyInput(t)
    \/ SpawnCoin
    \/ GameTick
    \/ \E s \in sends : Deliver(s)
    \/ GatherDone
    \/ Advance

\* The server with two connections, whose clients send the input records of Keys.
Spec == Init /\ [][Next]_vars

NextKeys ==
    \/ Register(MaxPidKeys)
    \/ \E p \in DOMAIN conn : WelcomeDone(p)
    \/ \E p \in DOMAIN conn : ClientClose(p)
    \/ \E p \in DOMAIN conn : Unregister(p)
    \/ \E p \in DOMAIN conn : \E m \in Messages(InputRecords) : Recv(p, m)
    \/ \E t \in inflight : ApplyInput(t)
    \/ SpawnCoin
    \/ GameTick
    \/ \E s \in sends : Deliver(s)
    \/ GatherDone
    \/ Advance

\* The server with one connection, whose client sends every input record.
SpecKeys == Init /\ [][NextKeys]_vars

NextLive ==
    \/ Register(MaxPidLive)
    \/ \E p \in DOMAIN conn : WelcomeDone(p)
    \/ \E p \in DOMAIN conn : ClientClose(p)
    \/ \E p \in DOMAIN conn : Unregister(p)
    \/ \E p \in DOMAIN conn : \E m \in Messages(Keys) : Recv(p, m)
    \/ \E t \in inflight : ApplyInput(t)
    \/ SpawnCoin
    \/ GameTick
    \/ \E s \in sends : Deliver(s)
    \/ GatherDone
    \/ AdvanceTo(MaxTimeLive)

\* The event loop runs every task that is ready, and time goes on: a coroutine
\* whose sleep is over, or whose awaited gather is done, is resumed.  Nothing is
\* assumed of the clients: they connect and close when they like.
Fairness ==
    /\ WF_vars(GameTick)
    /\ WF_vars(GatherDone)
    /\ WF_vars(\E s \in sends : Deliver(s))
    /\ WF_vars(SpawnCoin)
    /\ WF_vars(\E t \in inflight : ApplyInput(t))
    /\ WF_vars(\E p \in DOMAIN conn : WelcomeDone(p))
    /\ WF_vars(\E p \in DOMAIN conn : Unregister(p))
    /\ WF_vars(AdvanceTo(MaxTimeLive))

\* The server with one connection, whose client sends the input records of Keys,
\* over a longer time and under fair scheduling.
SpecLive == Init /\ [][NextLive]_vars /\ Fairness

\* ================================================================= claims

\* C1: the identifiers issued are 1, 2, 3, ... in registration order, so each is
\* greater than all issued before and none is issued twice, also after the
\* player that held it has left the player table; every player in the table
\* holds an identifier that was issued.
C1_IdsIncreasing ==
    /\ \A i \in 1..Len(issued) : issued[i] = i
    /\ \A p \in Pids : \E i \in 1..Len(issued) : issued[i] = p

\* C1 witness: a second identifier has been issued after or while the first
\* player left the table.
C1_Witness == Len(issued) = 2 /\ 1 \notin Pids /\ 2 \in Pids

\* C2 as stated: the phase leaves Active only at or after game_end_time, and
\* once an Intermission deadline is armed the phase does not return to Active
\* before it.
C2_Orig ==
    [][ /\ (game_active /\ ~game_active') => now >= game_end_time
        /\ (~game_active /\ game_active' /\ intermission_end # 0)
              => now >= intermission_end ]_vars

\* C2 amended: the phase leaves Active only at or after game_end_time; when the
\* phase returns to Active before an armed Intermission deadline, the step is
\* the auto-start of a registration whose welcome has just been sent, never a
\* tick of game_loop.
C2_Amended ==
    [][ /\ (game_active /\ ~game_active') => now >= game_end_time
        /\ (~game_active /\ game_active' /\ intermission_end # 0
               /\ now < intermission_end)
              => /\ loop' = loop
                 /\ \E p \in DOMAIN conn :
                       conn[p].pc = "welcome" /\ conn'[p].pc = "recv" ]_vars

\* C2 witness: an Intermission deadline is armed and not reached, and a
\* registration is about to complete.
C2_Witness ==
    /\ ~game_active
    /\ intermission_end # 0
    /\ now < intermission_end
    /\ \E p \in DOMAIN conn : conn[p].pc = "welcome" /\ now >= conn[p].due

\* C3 as stated: no state has a player in the table whose welcome is pending
\* while the phase is not Active, and a connection past its welcome has received
\* exactly one welcome message with its own identifier and the round length.
C3_Orig ==
    /\ \A p \in DOMAIN conn : (conn[p].pc = "welcome" /\ p \in Pids) => game_active
    /\ \A p \in DOMAIN conn :
          conn[p].pc # "welcome"
            => /\ Len(inbox[p]) = 1
               /\ inbox[p][1].id = p
               /\ inbox[p][1].game_duration = GAME_DURATION

\* The player with the lowest identifier among those with the maximum score.
TopScorer(ps) ==
    IF DOMAIN ps = {} THEN None
    ELSE Some(CHOOSE p \in DOMAIN ps :
                /\ \A q \in DOMAIN ps : ps[q].score <= ps[p].score
                /\ \A q \in DOMAIN ps : ps[q].score = ps[p].score => p <= q)

\* C4: every end_round sets last_winner to the lowest identifier among the
\* players of the table with the maximum score, and to None on an empty table.
C4_Winner == [][ (game_active /\ ~game_active') => last_winner' = TopScorer(players') ]_vars

\* C4 witness: a round has just ended with two players tied at a positive score,
\* and the first won.
C4_Witness ==
    /\ ~game_active
    /\ intermission_end = now + Sec(INTERMISSION)
    /\ Pids = {1, 2}
    /\ players[1].score >= 1
    /\ players[1].score = players[2].score
    /\ last_winner = Some(1)

\* C5: there is at most one Coin, and a Coin exists only while the phase is Active.
C5_CoinOnlyActive == Len(coin) <= 1 /\ (coin # None => game_active)

\* C5 witness: a Coin exists.
C5_Witness == coin # None /\ game_active

\* C6: every player of the table is inside the map by its radius.
C6_InBounds ==
    \A p \in Pids :
        /\ PLAYER_R <= players[p].x /\ players[p].x <= MAP_W - PLAYER_R
        /\ PLAYER_R <= players[p].y /\ players[p].y <= MAP_H - PLAYER_R

\* C6 witness: a player has been pushed back onto the bounds at one corner.
C6_Witness ==
    \E p \in Pids :
        \/ players[p].x = PLAYER_R /\ players[p].y = PLAYER_R /\ players[p].vx < 0
        \/ /\ players[p].x = MAP_W - PLAYER_R
           /\ players[p].y = MAP_H - PLAYER_R
           /\ players[p].vx > 0

Sign(n) == IF n > 0 THEN 1 ELSE IF n < 0 THEN -1 ELSE 0

\* The squared length of a velocity, 1000000 being 1.
Len2(p) == p.vx * p.vx + p.vy * p.vy

\* Length 1 up to the resolution of the fixed-point arithmetic (a thousandth).
UnitLength(p) == 999 * 999 <= Len2(p) /\ Len2(p) <= 1001 * 1001

\* C7: every application of an input record to a player of the table writes a
\* velocity that points along (right - left, down - up) and is the zero vector
\* when both axes cancel, and a vector of length 1 otherwise, the two components
\* of a diagonal being of equal size; and in every state every player's
\* velocity is the zero vector or has length 1.
C7_UnitVelocity ==
    /\ [](\A p \in Pids : Len2(players[p]) = 0 \/ UnitLength(players[p]))
    /\ [][ \A t \in inflight \ inflight' :
              t.pid \in Pids =>
                LET v == players'[t.pid]
                    ax == (IF t.input.right THEN 1 ELSE 0) - (IF t.input.left THEN 1 ELSE 0)
                    ay == (IF t.input.down THEN 1 ELSE 0) - (IF t.input.up THEN 1 ELSE 0)
                IN  /\ Sign(v.vx) = ax
                    /\ Sign(v.vy) = ay
                    /\ (ax = 0 /\ ay = 0) <=> Len2(v) = 0
                    /\ (ax # 0 \/ ay # 0) => UnitLength(v)
                    /\ (ax # 0 /\ ay # 0) => v.vx * v.vx = v.vy * v.vy ]_vars

\* C7 witness: a player moves along a diagonal.
C7_Witness == \E p \in Pids : players[p].vx < 0 /\ players[p].vy > 0

\* C8 as stated: the connection that receives a malformed message keeps its
\* player, with the same velocity, position and score, and goes on receiving.
C8_Orig ==
    [][ \A p \in bad' \ bad :
          /\ p \in DOMAIN players'
          /\ players'[p] = players[p]
          /\ conn'[p].pc = "recv" ]_vars

Pending == {s.to : s \in sends}

\* C9: while a snapshot is being delivered, every session it was built for has
\* got it, has failed or is still to be served, and never two of these (no
\* retry); only a closed session fails, so every session that stays open gets
\* the snapshot; and the step in which a send fails changes nothing but the
\* record of that send: not the other sends, not the player table, not the
\* state of game_loop, which resumes once no send is left.
C9_SendFailureIsolated ==
    /\ [](loop.pc = "gather" =>
            /\ delivered \cup failed \cup Pending = DOMAIN Val(snap).players
            /\ delivered \cap failed = {}
            /\ delivered \cap Pending = {}
            /\ failed \cap Pending = {}
            /\ failed \cap alive = {})
    /\ [](loop.pc \in {"run", "gather"})
    /\ [][ (failed' # failed /\ failed' # {}) =>
              /\ \E s \in sends : sends' = sends \ {s} /\ failed' = failed \cup {s.to}
              /\ delivered' = delivered
              /\ players' = players
              /\ conn' = conn
              /\ loop' = loop ]_vars

\* C9 witness: all sends of a snapshot are done, one failed, another was delivered.
C9_Witness == loop.pc = "gather" /\ sends = {} /\ failed # {} /\ delivered # {}

\* C10 as stated: each tick begins one tick period after the previous one began.
C10_Orig == [][ loop'.last # loop.last => loop'.last - loop.last = TickPeriod ]_vars

\* A step of game_loop from the top of an iteration to its next suspension.
TickStep == loop.pc = "run" /\ loop' # loop

\* C11 as stated: a tick that begins while the round is on, with a coin and a
\* player within reach of it, adds exactly 1 to that player's score and leaves
\* no coin.
C11_Orig ==
    [][ (TickStep /\ game_active /\ coin # None) =>
          \A p \in Pids :
             InReach(players[p], Val(coin)) =>
                /\ p \in DOMAIN players'
                /\ players'[p].score = players[p].score + 1
                /\ coin' = None ]_vars

\* C11 amended: a tick that begins while the round is on, with a coin, adds
\* exactly 1 to the score of the player that, where the tick's motion step
\* puts the players, is the first in table order within reach of the coin, and
\* leaves no coin.
C11_FirstInReachScores ==
    [][ (TickStep /\ game_active /\ coin # None) =>
          \A p \in Pids :
             ( /\ InReach(players'[p], Val(coin))
               /\ \A q \in Pids : q < p => ~InReach(players'[q], Val(coin)) ) =>
                /\ players'[p].score = players[p].score + 1
                /\ coin' = None ]_vars

\* C11 witness: a tick of a round has just credited a player, the round goes
\* on and there is no coin left.
C11_Witness ==
    /\ game_active /\ coin = None
    /\ loop.pc = "gather" /\ loop.last = now
    /\ \E p \in Pids : players[p].score >= 1 /\ Val(snap).players[p].score >= 1

\* The snapshot the previous tick built reported time_left = 0 with
\* game_active = true.
ZeroReported ==
    /\ reported # None
    /\ Val(reported).game_active
    /\ Val(reported).time_left = 0

\* C12 as stated: the tick after a snapshot that reported time_left = 0 with
\* game_active = true ends the round: the phase is Intermission, there is no
\* coin, and last_winner is the top scorer of the table (None for an empty one).
C12_Orig ==
    [][ (TickStep /\ ZeroReported) =>
          /\ ~game_active'
          /\ coin' = None
          /\ last_winner' = TopScorer(players') ]_vars

\* C12 amended: when a snapshot reported time_left = 0 with game_active = true,
\* the deadline was less than a second after that snapshot's tick, and the next
\* tick ends the round (Intermission, no coin, last_winner the top scorer of the
\* table) exactly when it begins at or after the deadline; a tick that begins
\* before the deadline leaves the round on.
C12_ZeroMeansLastSecond ==
    [][ (TickStep /\ ZeroReported) =>
          /\ game_active
          /\ game_end_time > loop.last
          /\ game_end_time - loop.last < Sec(1)
          /\ IF now >= game_end_time
             THEN /\ ~game_active'
                  /\ coin' = None
                  /\ last_winner' = TopScorer(players')
                  /\ intermission_end' = now + Sec(INTERMISSION)
             ELSE game_active' /\ last_winner' = None ]_vars

\* C12 witness: a tick is about to run before the deadline although the
\* previous snapshot reported time_left = 0 with game_active = true.
C12_Witness ==
    /\ ZeroReported
    /\ loop.pc = "run" /\ now >= loop.due
    /\ now < game_end_time

\* A step of spawn_coin: it wakes up, looks at the phase and the coin, and goes
\* back to sleep.
SpawnStep == spawn_due' # spawn_due

\* C13: the spawner is never overdue and never sleeps longer than its interval,
\* so from any state it fires within one interval; when it fires in a round
\* that has no coin it creates one inside the inset area, and when it fires
\* in an Intermission or while a coin exists it changes neither the coin nor
\* anything else of the world; nothing but the spawner creates a coin.
C13_SpawnWithinInterval ==
    /\ [](now <= spawn_due /\ spawn_due <= now + Sec(SPAWN_SLEEP))
    /\ [][ SpawnStep =>
             /\ spawn_due' = now + Sec(SPAWN_SLEEP)
             /\ IF game_active /\ coin = None
                THEN /\ coin' # None
                     /\ COIN_INSET <= Val(coin').x /\ Val(coin').x <= MAP_W - COIN_INSET
                     /\ COIN_INSET <= Val(coin').y /\ Val(coin').y <= MAP_H - COIN_INSET
                ELSE coin' = coin
             /\ players' = players
             /\ game_active' = game_active
             /\ game_end_time' = game_end_time
             /\ intermission_end' = intermission_end
             /\ last_winner' = last_winner ]_vars
    /\ [][ (coin = None /\ coin' # None) => (SpawnStep /\ game_active) ]_vars

\* C13 witness: the spawner has just fired in a round and there is a coin, a
\* full interval after its previous firing.
C13_Witness ==
    /\ game_active /\ coin # None
    /\ spawn_due = now + Sec(SPAWN_SLEEP)
    /\ now >= 2 * Sec(SPAWN_SLEEP)

\* C14: every step that takes the phase from Intermission to Active is taken
\* with a player in the table, before and after it; and a tick that runs in an
\* Intermission with an empty table leaves the phase, the deadline of the
\* Intermission (elapsed or not) and the table as they are, so the phase stays
\* Intermission until a registration puts a player in the table.
C14_NoRoundWithoutPlayer ==
    /\ [][ (~game_active /\ game_active') => (Pids # {} /\ DOMAIN players' # {}) ]_vars
    /\ [][ (TickStep /\ ~game_active /\ Pids = {}) =>
             /\ ~game_active'
             /\ intermission_end' = intermission_end
             /\ game_end_time' = game_end_time
             /\ players' = players ]_vars
    /\ [][ (~game_active /\ Pids = {} /\ DOMAIN players' = {}) => ~game_active' ]_vars

\* C14 witness: the deadline of an Intermission has elapsed, a tick has run at
\* or after it with an empty table, and the phase is still Intermission.
C14_Witness ==
    /\ ~game_active
    /\ intermission_end # 0 /\ now >= intermission_end
    /\ Pids = {}
    /\ loop.pc = "run" /\ loop.last = now /\ loop.due > now

\* The players within reach of the coin c where a tick has put them.
InReachAfter(c) == IF c = None THEN {} ELSE {p \in Pids : InReach(players'[p], Val(c))}

\* C15: in a tick of a round no player enters or leaves the table, and the
\* scores change as follows.  When a coin exists and some player is within
\* reach of it after the tick's motion, the player with the lowest identifier
\* among them gains exactly 1, every other score is unchanged and the
\* collision leaves no coin.  Otherwise no score changes, and the collision
\* leaves the coin as it was (the coin is gone after the tick only when the
\* tick also ends the round).
C15_OneScorerPerTick ==
    [][ (TickStep /\ game_active) =>
          /\ DOMAIN players' = Pids
          /\ LET hit == InReachAfter(coin) IN
              IF hit # {}
              THEN /\ coin' = None
                   /\ \E p \in hit :
                        /\ \A q \in hit : p <= q
                        /\ players'[p].score = players[p].score + 1
                        /\ \A q \in Pids \ {p} : players'[q].score = players[q].score
              ELSE /\ \A q \in Pids : players'[q].score = players[q].score
                   /\ coin' = coin \/ (~game_active' /\ coin' = None) ]_vars

\* C15 witness: a tick of a round has left two players on the same spot, the
\* lower identifier with a point more than the other, and no coin.
C15_Witness ==
    /\ game_active /\ coin = None
    /\ loop.pc = "gather" /\ loop.last = now
    /\ Pids = {1, 2}
    /\ players[1].x = players[2].x /\ players[1].y = players[2].y
    /\ players[1].score = players[2].score + 1

\* The game world: everything but the clock and the bookkeeping of the tasks.
World == << players, next_pid, coin, game_active, game_end_time, intermission_end,
            last_winner >>

\* C16: a delayed input application that completes when its player is no
\* longer in the table changes nothing of the world: the table is the same (the
\* player is not put back, and no other player's record changes, also when
\* players registered in the meantime), and so are the identifier counter, the
\* coin and the round state.  One that completes for a player of the table
\* changes at most that player's velocity: the same identifiers are in the
\* table, every other record is unchanged, that player's position and score
\* are unchanged, and so is the rest of the world.
C16_StaleInputIsNoOp ==
    [][ \A t \in inflight \ inflight' :
          IF t.pid \notin Pids
          THEN World' = World
          ELSE /\ DOMAIN players' = Pids
               /\ \A q \in Pids \ {t.pid} : players'[q] = players[q]
               /\ players'[t.pid].x = players[t.pid].x
               /\ players'[t.pid].y = players[t.pid].y
               /\ players'[t.pid].score = players[t.pid].score
               /\ << next_pid, coin, game_active, game_end_time, intermission_end,
                     last_winner >>' =
                  << next_pid, coin, game_active, game_end_time, intermission_end,
                     last_winner >> ]_vars

\* C16 witness: an input application is due whose player has left the table,
\* and a player that registered after that input was sent is in the table.
C16_Witness ==
    \E t \in inflight :
        /\ now >= t.due
        /\ t.pid \notin Pids
        /\ \E q \in Pids : q > t.pid

\* C17: a tick is one step, in which motion comes before collision, collision
\* before the deadline check, and the deadline check before the snapshot.  In
\* every tick of a round the players stand after it where the motion step puts
\* them, and a player whose score changes is within reach of the coin from
\* there.  In the tick that ends the round, the winner is the top scorer of the
\* scores as the collision of this same tick left them, and with a player in
\* the table the snapshot of this tick shows game_active = false, no coin, the
\* new last_winner and the scores after the collision.
C17_TickOrder ==
    /\ [][ (TickStep /\ game_active) =>
             LET moved == Integrate(players, now - loop.last) IN
             /\ loop'.last = now
             /\ \A p \in Pids :
                  /\ players'[p].x = moved[p].x /\ players'[p].y = moved[p].y
                  /\ players'[p].score # players[p].score =>
                        coin # None /\ InReach(moved[p], Val(coin)) ]_vars
    /\ [][ (TickStep /\ game_active /\ ~game_active') =>
             /\ now >= game_end_time
             /\ InReachAfter(coin) # {} =>
                  \E p \in Pids : players'[p].score = players[p].score + 1
             /\ last_winner' = TopScorer(players')
             /\ Pids # {} =>
                  /\ loop'.pc = "gather" /\ snap' # None
                  /\ ~Val(snap').game_active
                  /\ Val(snap').coin = None
                  /\ Val(snap').last_winner = last_winner'
                  /\ \A p \in Pids :
                       Val(snap').players[p].score = players'[p].score ]_vars

\* C17 witness: the tick that is about to run ends the round, and the coin it
\* collects decides the winner: both players have no point, and only the second
\* one stands, at rest, on the coin.
C17_Witness ==
    /\ loop.pc = "run" /\ now >= loop.due
    /\ game_active /\ now >= game_end_time
    /\ coin # None /\ Pids = {1, 2}
    /\ players[1].score = 0 /\ players[2].score = 0
    /\ players[1].vx = 0 /\ players[2].vx = 0
    /\ ~InReach(players[1], Val(coin)) /\ InReach(players[2], Val(coin))

\* C18: a tick that begins and ends in an Intermission leaves the player table
\* as it is (positions, scores and velocities), whatever velocities the inputs
\* applied during the Intermission wrote; with the other steps that can run in
\* an Intermission, no position and no score changes from an end_round to the
\* next start_round.
C18_FrozenInIntermission ==
    /\ [][ (TickStep /\ ~game_active /\ ~game_active') => players' = players ]_vars
    /\ [][ (~game_active /\ ~game_active') =>
             \A p \in Pids \cap DOMAIN players' :
                /\ players'[p].x = players[p].x
                /\ players'[p].y = players[p].y
                /\ players'[p].score = players[p].score ]_vars

\* C18 witness: a tick is about to run in an Intermission that it does not end,
\* some time after the previous tick, and a player of the table has a velocity
\* that is not zero.
C18_Witness ==
    /\ loop.pc = "run" /\ now >= loop.due /\ now > loop.last
    /\ ~game_active /\ ~ResumeDue
    /\ \E p \in Pids : players[p].vx # 0

\* C19: the step that starts a round, from a registration or from the tick
\* loop, leaves every player with score 0 at a position of the spawn area,
\* no coin, no last_winner, the phase Active, the deadline one round length
\* after the current time and the Intermission deadline unarmed; and in every
\* state of a round last_winner is unset.
C19_StartRoundResets ==
    /\ [](game_active => last_winner = None)
    /\ [][ (~game_active /\ game_active') =>
             /\ DOMAIN players' = Pids
             /\ \A p \in Pids :
                  /\ players'[p].score = 0
                  /\ SPAWN_MARGIN <= players'[p].x
                  /\ players'[p].x <= MAP_W - SPAWN_MARGIN
                  /\ SPAWN_MARGIN <= players'[p].y
                  /\ players'[p].y <= MAP_H - SPAWN_MARGIN
             /\ coin' = None
             /\ last_winner' = None
             /\ game_end_time' = now + Sec(GAME_DURATION)
             /\ intermission_end' = 0 ]_vars

\* C19 witness: the tick loop has just started a round for two players after an
\* Intermission ran to its deadline: it is at least one round and one
\* Intermission after the earliest start of a first round.
C19_Witness ==
    /\ game_active /\ game_end_time = now + Sec(GAME_DURATION)
    /\ Pids = {1, 2}
    /\ loop.pc = "gather" /\ loop.last = now
    /\ now >= LATENCY + Sec(GAME_DURATION) + Sec(INTERMISSION)

\* The longest time from one tick to the next: the tick period, or the delivery
\* delay of the snapshot the loop waits for.
TickGap == Max(TickPeriod, LATENCY)

\* C20: under fair scheduling, as far as the clock of the model runs: every
\* round whose deadline is reached is followed by an Intermission; every
\* Intermission with an armed deadline and a player in the table is followed by
\* a round, unless the table becomes empty first; and game_loop never ends:
\* it is always at the top of an iteration or waiting for its sends, a wait for
\* the sends comes to an end, and the iteration that is to begin at a time t
\* begins, then or later, whatever connections closed or failed.
C20_RoundsAlternate ==
    /\ [](loop.pc \in {"run", "gather"})
    /\ (game_active /\ game_end_time + TickGap <= MaxTimeLive) ~> ~game_active
    /\ ( /\ ~game_active /\ intermission_end # 0 /\ Pids # {}
         /\ Max(now, intermission_end) + TickGap <= MaxTimeLive )
          ~> (game_active \/ Pids = {})
    /\ (loop.pc = "gather" /\ loop.last + LATENCY <= MaxTimeLive) ~> loop.pc = "run"
    /\ \A t \in 1..MaxTimeLive :
          (loop.pc = "run" /\ loop.due = t) ~> (loop.last >= t)

\* C20 witness: after a round and an Intermission the tick loop has resumed
\* play for the player, who stayed connected.
C20_Witness ==
    /\ game_active /\ game_end_time = now + Sec(GAME_DURATION)
    /\ loop.pc = "gather" /\ loop.last = now
    /\ now >= LATENCY + Sec(GAME_DURATION) + Sec(INTERMISSION)
    /\ Pids = {1} /\ 1 \in alive /\ conn[1].pc = "recv"

====
